---- MODULE Spec2Model ----
(***************************************************************************)
(* The game state object `mainState` of the Flappy Bird clone (game.js,    *)
(* kept in src/.github/workflows/sonar.yml lines 438-735) and the engine   *)
(* that drives it: preload -> create -> per-frame update, the looping      *)
(* spawn timer, the space key, the physics step and the restart.           *)
(*                                                                         *)
(* Every handler of the state object is an operator from a world record to *)
(* the world record after the call; the actions of the specifications draw *)
(* the handler's inputs and commit its result.                             *)
(***************************************************************************)
EXTENDS Integers, Sequences, FiniteSets, TLC

VARIABLES
    game,          \* this.game is set
    bird,          \* this.bird: absent, an image payload, or the sprite
    pipe,          \* this.pipe: absent or an image payload
    pipes,         \* this.pipes: the obstacle group (absent before create)
    score,         \* this.score
    labelScore,    \* this.labelScore: the text object (absent before create)
    timer,         \* this.timer: the handle returned by time.events.loop
    engine,        \* the collaborator: state manager, clock, input, tweens
    obs,           \* what the last handler call did to the collaborator
    hist,          \* history of the current run
    config,        \* the configuration object handed to validateConfig
    verdict        \* what the last validateConfig call returned or raised

vars == <<game, bird, pipe, pipes, score, labelScore, timer, engine, obs, hist,
          config, verdict>>

(***************************************************************************)
(* GAME_CONFIG                                                             *)
(***************************************************************************)
width == 400
height == 490
birdStartX == 100
birdStartY == 245
birdGravity == 1000
birdJumpVelocity == -350
birdMaxAngle == 20
birdMinAngle == -20
pipeVelocity == -200
pipeSpacing == 60
pipeOffset == 10
pipeGapMin == 1
pipeGapMax == 5
pipeRows == 8
updateInterval == 1500
PoolSize == 20          \* createMultiple(20, 'pipe')
MinInterval == 500      \* Math.max(500, ...)
MaxInterval == 5000     \* Math.min(..., 5000)
SpriteSize == 50        \* both embedded PNG payloads are 50 x 50 pixels

(***************************************************************************)
(* Bounds of the model                                                     *)
(***************************************************************************)
MaxTicks == 3           \* spawn ticks followed in one run
MaxRuns == 2            \* runs (completed create calls) followed
Grain == 2              \* a spawn tick draws normalizedRandom from {0/Grain .. (Grain-1)/Grain}
ApiGrain == 5           \* a direct call draws it from {0/ApiGrain .. (ApiGrain-1)/ApiGrain}
ApiPool == 2            \* obstacles of a pool handed to a directly called handler
MaxCalls == 2           \* handler calls made in a row on one hand-built state object
MaxGap == 3             \* gap indices of a configuration handed to validateConfig: 0..MaxGap
TweenGrain == 2         \* a tween in flight is seen at the fractions 1/TweenGrain .. of its way

Min(a, b) == IF a < b THEN a ELSE b
Max(a, b) == IF a > b THEN a ELSE b

\* The engine's clock advances in quanta of half the spawn delay.
SpawnDelay == Max(MinInterval, Min(updateInterval, MaxInterval))
Quantum == SpawnDelay \div 2
TicksDue == SpawnDelay \div Quantum

(***************************************************************************)
(* Values                                                                  *)
(***************************************************************************)
NoBird == [kind |-> "absent", alive |-> FALSE, inWorld |-> FALSE, angle |-> 0, vy |-> 0]
Payload(k) == [kind |-> k, alive |-> FALSE, inWorld |-> FALSE, angle |-> 0, vy |-> 0]
\* game.add.sprite(...) followed by physics.arcade.enable: a live body at rest
NewSprite == [kind |-> "sprite", alive |-> TRUE, inWorld |-> TRUE, angle |-> 0, vy |-> 0]

\* One child made by createMultiple: dead until reset
DeadPipe == [alive |-> FALSE, x |-> 0, y |-> 0, vx |-> 0, cwb |-> FALSE, oob |-> FALSE]
NoPipes == [present |-> FALSE, items |-> << >>]
NoLabel == [present |-> FALSE, text |-> << >>]

\* this.score: a number, or one of the values that are not numbers
Num(n) == [kind |-> "number", n |-> n]
\* undefined (the field is not set before create)
NoScore == [kind |-> "undefined", n |-> 0]
\* NaN
NaNScore == [kind |-> "NaN", n |-> 0]
\* a markup string, or an object whose toString returns one
TextScore == [kind |-> "text", n |-> 0]

NoObs == [op |-> "none", removeCalls |-> 0, forEachCalls |-> 0, overlapCalls |-> 0,
          startCalls |-> 0, hitCalls |-> 0, err |-> "none", thrown |-> 0,
          addCalls |-> 0, asked |-> {}, resets |-> {}, faults |-> {}]
NoHist == [runs |-> 0, ticks |-> 0, cancels |-> 0, deaths |-> 0, shipped |-> FALSE,
           calls |-> 0]

NoEngine == [phase |-> "idle", pendingStart |-> FALSE, timerActive |-> FALSE,
             elapsed |-> 0, keyBound |-> FALSE, tween |-> FALSE, loaded |-> {},
             bg |-> "none"]

\* The world a handler runs in: the fields of `this` and the collaborator.
World == [game |-> game, bird |-> bird, pipe |-> pipe, pipes |-> pipes, score |-> score,
          labelScore |-> labelScore, timer |-> timer, engine |-> engine, obs |-> obs,
          hist |-> hist]

Commit(w) ==
    /\ game' = w.game
    /\ bird' = w.bird
    /\ pipe' = w.pipe
    /\ pipes' = w.pipes
    /\ score' = w.score
    /\ labelScore' = w.labelScore
    /\ timer' = w.timer
    /\ engine' = w.engine
    /\ obs' = w.obs
    /\ hist' = w.hist
    /\ UNCHANGED <<config, verdict>>

\* A handler call starts with a clean observation record.
Enter(w, name) == [w EXCEPT !.obs = [NoObs EXCEPT !.op = name]]
\* An exception is raised: it is on its way out of the handler until caught.
Throw(w, msg) == [w EXCEPT !.obs.err = msg, !.obs.thrown = @ + 1]

(***************************************************************************)
(* Text: String(n) and the two sanitizers, over sequences of characters    *)
(***************************************************************************)
Digits == <<"0", "1", "2", "3", "4", "5", "6", "7", "8", "9">>

RECURSIVE String(_)
String(n) ==
    IF n < 0 THEN <<"-">> \o String(0 - n)
    ELSE IF n < 10 THEN <<Digits[n + 1]>>
    ELSE String(n \div 10) \o <<Digits[(n % 10) + 1]>>

\* text.replace(/[<>&"']/g, '')
sanitizeText(text) == SelectSeq(text, LAMBDA c : c \notin {"<", ">", "&", "\"", "'"})

\* The rest of s after the tag opened just before it: up to and with the first ">"
RECURSIVE AfterTag(_)
AfterTag(s) ==
    IF s = << >> THEN << >>
    ELSE IF Head(s) = ">" THEN Tail(s)
    ELSE AfterTag(Tail(s))

\* text.replace(/<[^>]*>?/gm, '')
RECURSIVE sanitizeScore(_)
sanitizeScore(s) ==
    IF s = << >> THEN << >>
    ELSE IF Head(s) = "<" THEN sanitizeScore(AfterTag(Tail(s)))
    ELSE <<Head(s)>> \o sanitizeScore(Tail(s))

(***************************************************************************)
(* validateConfig (lines 461-483) and its call at load (line 486)          *)
(***************************************************************************)
GAME_CONFIG ==
    [width |-> width, height |-> height,
     birdStartX |-> birdStartX, birdStartY |-> birdStartY,
     pipeGapMin |-> pipeGapMin, pipeGapMax |-> pipeGapMax, pipeRows |-> pipeRows,
     backgroundColor |-> <<"#", "F", "F", "6", "A", "5", "E">>]

HexDigits ==
    {"0", "1", "2", "3", "4", "5", "6", "7", "8", "9",
     "A", "B", "C", "D", "E", "F", "a", "b", "c", "d", "e", "f"}

\* /^#[0-9A-Fa-f]{6}$/.test(text)
colorRegexTest(text) ==
    /\ Len(text) = 7
    /\ text[1] = "#"
    /\ \A i \in 2..7 : text[i] \in HexDigits

\* The message of the Error raised, or "true" for the value returned
validateConfig(c) ==
    IF c.width <= 0 \/ c.height <= 0 THEN "Invalid game dimensions"
    ELSE IF c.birdStartX < 0 \/ c.birdStartY < 0 THEN "Invalid bird starting position"
    ELSE IF c.pipeGapMin >= c.pipeGapMax THEN "Invalid pipe gap configuration"
    ELSE IF c.pipeRows < c.pipeGapMax THEN "Invalid pipe row configuration"
    ELSE IF ~colorRegexTest(c.backgroundColor) THEN "Invalid background color format"
    ELSE "true"

(***************************************************************************)
(* preload (lines 494-527)                                                 *)
(***************************************************************************)
\* validateBase64 returns its argument only for a string that matches the
\* PNG data-URI pattern; undefined, null, an object or another string throw.
validateBase64(kind) == kind = "png"

\* Mutant: each asset is loaded as soon as it is validated.
preloadLoadsEach(w) ==
    IF ~w.game THEN w
    ELSE LET w1 == [w EXCEPT !.engine.bg = "#FF6A5E"] IN
         IF ~validateBase64(w1.bird.kind) THEN Throw(w1, "Invalid image data format")
         ELSE LET w2 == [w1 EXCEPT !.engine.loaded = @ \cup {"bird"}] IN
              IF ~validateBase64(w2.pipe) THEN Throw(w2, "Invalid image data format")
              ELSE [w2 EXCEPT !.engine.loaded = @ \cup {"pipe"}]

preload(w) ==
    IF ~w.game THEN w
    ELSE LET w1 == [w EXCEPT !.engine.bg = "#FF6A5E"] IN
         IF ~validateBase64(w1.bird.kind) THEN Throw(w1, "Invalid image data format")
         ELSE IF ~validateBase64(w1.pipe) THEN Throw(w1, "Invalid image data format")
         ELSE [w1 EXCEPT !.engine.loaded = {"bird", "pipe"}]

(***************************************************************************)
(* create (lines 533-587)                                                  *)
(***************************************************************************)
\* What the collaborator hands back to create: game.add.sprite a sprite or
\* null, physics.arcade.enable a body or none, game.add.group a group or
\* null, keyboard.addKey a key, null, or a key without onDown.
NoFault == [sprite |-> TRUE, body |-> TRUE, group |-> TRUE, key |-> "ok"]
Faults == [sprite : BOOLEAN, body : BOOLEAN, group : BOOLEAN, key : {"ok", "null", "noOnDown"}]

\* The components the collaborator fails to deliver
MissingOf(f) ==
    (IF f.sprite THEN {} ELSE {"sprite"})
        \cup (IF f.body THEN {} ELSE {"physics"})
        \cup (IF f.group THEN {} ELSE {"group"})
        \cup (IF f.key = "ok" THEN {} ELSE {"keyboard"})

\* The sprite returned by game.add.sprite, on which no physics body was set
BodilessSprite == [kind |-> "bodiless", alive |-> TRUE, inWorld |-> TRUE, angle |-> 0, vy |-> 0]

\* Mutant: the physics body is used without being checked.
createWithNoBodyCheck(w0, f) ==
    IF ~w0.game THEN w0
    ELSE LET w == [w0 EXCEPT !.obs.faults = MissingOf(f), !.score = Num(0)] IN
         IF ~f.sprite THEN Throw([w EXCEPT !.bird = NoBird], "Failed to create bird sprite")
         ELSE IF ~f.body THEN Throw([w EXCEPT !.bird = BodilessSprite], "TypeError")
         ELSE LET w1 == [w EXCEPT !.bird = NewSprite] IN
              IF ~f.group THEN Throw([w1 EXCEPT !.pipes = NoPipes], "Failed to create pipe group")
              ELSE LET w2 == [w1 EXCEPT
                                !.pipes = [present |-> TRUE,
                                           items |-> [i \in 1..PoolSize |-> DeadPipe]],
                                !.labelScore = [present |-> TRUE,
                                                text |-> sanitizeText(<<"0">>)]] IN
                   IF f.key # "ok" THEN Throw(w2, "Failed to set up keyboard controls")
                   ELSE [w2 EXCEPT !.engine.keyBound = TRUE,
                                   !.timer = TRUE,
                                   !.engine.timerActive = TRUE,
                                   !.engine.elapsed = 0]

\* create, statement by statement, with what the collaborator delivers
createWith(w0, f) ==
    IF ~w0.game THEN w0
    ELSE LET w == [w0 EXCEPT !.obs.faults = MissingOf(f), !.score = Num(0)] IN
         IF ~f.sprite THEN Throw([w EXCEPT !.bird = NoBird], "Failed to create bird sprite")
         ELSE IF ~f.body
              THEN Throw([w EXCEPT !.bird = BodilessSprite], "Failed to enable physics on bird")
         ELSE LET w1 == [w EXCEPT !.bird = NewSprite] IN
              IF ~f.group THEN Throw([w1 EXCEPT !.pipes = NoPipes], "Failed to create pipe group")
              ELSE LET w2 == [w1 EXCEPT
                                !.pipes = [present |-> TRUE,
                                           items |-> [i \in 1..PoolSize |-> DeadPipe]],
                                !.labelScore = [present |-> TRUE,
                                                text |-> sanitizeText(<<"0">>)]] IN
                   IF f.key # "ok" THEN Throw(w2, "Failed to set up keyboard controls")
                   ELSE [w2 EXCEPT !.engine.keyBound = TRUE,
                                   !.timer = TRUE,
                                   !.engine.timerActive = TRUE,
                                   !.engine.elapsed = 0]

\* Mutant: create leaves the score of the previous run in place.
createKeepsScore(w) == [createWith(w, NoFault) EXCEPT !.score = w.score]

\* Mutant: createMultiple makes half as many children.
createPoolOfTen(w) ==
    [createWith(w, NoFault) EXCEPT
        !.pipes.items = [i \in 1..(PoolSize \div 2) |-> DeadPipe]]

\* create with the engine as collaborator: every object is delivered
create(w) == createWith(w, NoFault)

(***************************************************************************)
(* restartGame (lines 663-666)                                             *)
(***************************************************************************)
\* Mutant: restart by resetting the fields of the current run in place.
restartGameInPlace(w) ==
    IF ~w.game THEN w
    ELSE [w EXCEPT !.bird = NewSprite, !.score = Num(0), !.obs.startCalls = @ + 1]

restartGame(w) ==
    IF ~w.game THEN w
    ELSE [w EXCEPT !.engine.pendingStart = TRUE, !.obs.startCalls = @ + 1]

(***************************************************************************)
(* hitPipe (lines 640-657)                                                 *)
(***************************************************************************)
\* Mutant: the remove call leaves the looping event scheduled.
eventsRemoveKeepsLoop(w) ==
    IF ~w.game THEN Throw(w, "TypeError")
    ELSE [w EXCEPT !.obs.removeCalls = @ + 1, !.hist.cancels = @ + 1]

\* game.time.events.remove(this.timer); without a game the access raises
eventsRemove(w) ==
    IF ~w.game THEN Throw(w, "TypeError")
    ELSE [w EXCEPT !.engine.timerActive = FALSE,
                   !.obs.removeCalls = @ + 1,
                   !.hist.cancels = @ + 1]

\* An exception is on its way out: the remaining statements do not run.
Raised(w) == w.obs.err # "none"

\* Mutant: only the first child of the group is stopped.
forEachAliveStopFirst(w) ==
    [w EXCEPT !.pipes.items = [i \in DOMAIN @ |->
                                 IF @[i].alive /\ i = 1 THEN [@[i] EXCEPT !.vx = 0] ELSE @[i]],
              !.obs.forEachCalls = @ + 1]

\* pipes.forEachAlive(p => p.body.velocity.x = 0)
forEachAliveStop(w) ==
    [w EXCEPT !.pipes.items = [i \in DOMAIN @ |->
                                 IF @[i].alive THEN [@[i] EXCEPT !.vx = 0] ELSE @[i]],
              !.obs.forEachCalls = @ + 1]

\* Mutant: the guard does not look at the alive flag.
hitPipeNoAliveGuard(w0) ==
    LET w == [w0 EXCEPT !.obs.hitCalls = @ + 1] IN
    IF w.bird.kind = "absent" \/ ~w.pipes.present THEN w
    ELSE LET w1 == [w EXCEPT !.bird.alive = FALSE,
                             !.hist.deaths = IF w.bird.alive THEN @ + 1 ELSE @]
             w2 == IF w1.timer THEN eventsRemove(w1) ELSE w1
         IN IF Raised(w2) THEN w2 ELSE forEachAliveStop(w2)

\* Mutant: the spawn timer is left running.
hitPipeNoCancel(w0) ==
    LET w == [w0 EXCEPT !.obs.hitCalls = @ + 1] IN
    IF w.bird.kind = "absent" \/ ~w.pipes.present \/ ~w.bird.alive THEN w
    ELSE forEachAliveStop([w EXCEPT !.bird.alive = FALSE, !.hist.deaths = @ + 1])

\* Mutant: the guard does not look at the pool.
hitPipeNoPoolGuard(w0) ==
    LET w == [w0 EXCEPT !.obs.hitCalls = @ + 1] IN
    IF w.bird.kind = "absent" \/ ~w.bird.alive THEN w
    ELSE LET w1 == [w EXCEPT !.bird.alive = FALSE, !.hist.deaths = @ + 1]
             w2 == IF w1.timer THEN eventsRemove(w1) ELSE w1
         IN IF Raised(w2) THEN w2
            ELSE IF ~w2.pipes.present THEN Throw(w2, "TypeError")
            ELSE forEachAliveStop(w2)

hitPipe(w0) ==
    LET w == [w0 EXCEPT !.obs.hitCalls = @ + 1] IN
    IF w.bird.kind = "absent" \/ ~w.pipes.present \/ ~w.bird.alive THEN w
    ELSE LET w1 == [w EXCEPT !.bird.alive = FALSE, !.hist.deaths = @ + 1]
             w2 == IF w1.timer THEN eventsRemove(w1) ELSE w1
         IN IF Raised(w2) THEN w2 ELSE forEachAliveStop(w2)

(***************************************************************************)
(* jump (lines 626-634)                                                    *)
(***************************************************************************)
\* Mutant: the impulse is added to the current velocity.
jumpAddsImpulse(w) ==
    IF w.bird.kind = "absent" \/ ~w.bird.alive THEN w
    ELSE LET w1 == [w EXCEPT !.bird.vy = @ + birdJumpVelocity] IN
         IF ~w1.game THEN Throw(w1, "TypeError")
         ELSE [w1 EXCEPT !.engine.tween = TRUE]

\* Mutant: the guard does not look at the alive flag.
jumpNoAliveGuard(w) ==
    IF w.bird.kind = "absent" THEN w
    ELSE LET w1 == [w EXCEPT !.bird.vy = birdJumpVelocity] IN
         IF ~w1.game THEN Throw(w1, "TypeError")
         ELSE [w1 EXCEPT !.engine.tween = TRUE]

jump(w) ==
    IF w.bird.kind = "absent" \/ ~w.bird.alive THEN w
    ELSE LET w1 == [w EXCEPT !.bird.vy = birdJumpVelocity] IN
         IF ~w1.game THEN Throw(w1, "TypeError")
         ELSE [w1 EXCEPT !.engine.tween = TRUE]

(***************************************************************************)
(* update (lines 593-620)                                                  *)
(***************************************************************************)
\* Mutant: the bound is tested with <= and the step is not clamped.
rotateOvershoots(w) ==
    IF w.bird.angle <= birdMaxAngle
    THEN [w EXCEPT !.bird.angle = @ + 1]
    ELSE w

\* Mutant: the angle advances by two units per frame.
rotateStepTwo(w) ==
    IF w.bird.angle < birdMaxAngle
    THEN [w EXCEPT !.bird.angle = Min(@ + 2, birdMaxAngle)]
    ELSE w

rotate(w) ==
    IF w.bird.angle < birdMaxAngle
    THEN [w EXCEPT !.bird.angle = Min(@ + 1, birdMaxAngle)]
    ELSE w

\* game.physics.arcade.overlap(bird, pipes, hitPipe, null, this): the
\* collaborator calls hitPipe once per overlapping obstacle, or raises.
overlap(w, ov) ==
    IF ~w.game THEN Throw(w, "TypeError")
    ELSE LET w1 == [w EXCEPT !.obs.overlapCalls = @ + 1] IN
         CASE ov = "none" -> w1
           [] ov = "hit" -> hitPipe(w1)
           [] ov = "hit2" -> LET w2 == hitPipe(w1) IN
                             IF Raised(w2) THEN w2 ELSE hitPipe(w2)
           [] OTHER -> Throw(w1, "overlap failed")

\* Mutant: the out-of-bounds branch does not return.
updateNoReturn(w, ov) ==
    IF w.bird.kind = "absent" \/ ~w.pipes.present THEN w
    ELSE LET w0 == IF ~w.bird.inWorld THEN restartGame(w) ELSE w
             w1 == rotate(w0)
             w2 == overlap(w1, ov)
         IN IF Raised(w2)
            THEN restartGame([w2 EXCEPT !.obs.err = "none"])
            ELSE w2

\* Mutant: the overlap query is not wrapped in try/catch.
updateNoCatch(w, ov) ==
    IF w.bird.kind = "absent" \/ ~w.pipes.present THEN w
    ELSE IF ~w.bird.inWorld THEN restartGame(w)
    ELSE overlap(rotate(w), ov)

\* Mutant: the out-of-bounds check is missing.
updateNoBoundsCheck(w, ov) ==
    IF w.bird.kind = "absent" \/ ~w.pipes.present THEN w
    ELSE LET w1 == rotate(w)
             w2 == overlap(w1, ov)
         IN IF Raised(w2)
            THEN restartGame([w2 EXCEPT !.obs.err = "none"])
            ELSE w2

update(w, ov) ==
    IF w.bird.kind = "absent" \/ ~w.pipes.present THEN w
    ELSE IF ~w.bird.inWorld THEN restartGame(w)
    ELSE LET w1 == rotate(w)
             w2 == overlap(w1, ov)
         IN IF Raised(w2)
            THEN restartGame([w2 EXCEPT !.obs.err = "none"])
            ELSE w2

(***************************************************************************)
(* addOnePipe (lines 673-683), addRowOfPipes (lines 694-723)               *)
(***************************************************************************)
\* Mutant: the last dead child is taken.
getLastDead(items) ==
    IF \E i \in DOMAIN items : ~items[i].alive
    THEN CHOOSE i \in DOMAIN items :
             ~items[i].alive /\ \A j \in DOMAIN items : j > i => items[j].alive
    ELSE 0

\* pipes.getFirstDead(): the index of the first dead child, 0 when none
getFirstDead(items) ==
    IF \E i \in DOMAIN items : ~items[i].alive
    THEN CHOOSE i \in DOMAIN items :
             ~items[i].alive /\ \A j \in DOMAIN items : j < i => items[j].alive
    ELSE 0

\* Mutant: the check of the child taken from the pool is missing.
addOnePipeNoDeadGuard(w0, x, y) ==
    LET w == [w0 EXCEPT !.obs.addCalls = @ + 1, !.obs.asked = @ \cup {<<x, y>>}] IN
    IF ~w.pipes.present THEN w
    ELSE LET i == getFirstDead(w.pipes.items) IN
         IF i = 0 THEN Throw(w, "TypeError")
         ELSE [w EXCEPT !.pipes.items[i] =
                  [alive |-> TRUE, x |-> x, y |-> y, vx |-> pipeVelocity,
                   cwb |-> TRUE, oob |-> TRUE],
                        !.obs.resets = @ \cup {i}]

\* Mutant: a killed child is not taken again, a new one is added to the group.
addOnePipeGrowsPool(w0, x, y) ==
    LET w == [w0 EXCEPT !.obs.addCalls = @ + 1, !.obs.asked = @ \cup {<<x, y>>}]
        made == [alive |-> TRUE, x |-> x, y |-> y, vx |-> pipeVelocity,
                 cwb |-> TRUE, oob |-> TRUE] IN
    IF ~w.pipes.present THEN w
    ELSE LET i == getFirstDead(w.pipes.items) IN
         IF i = 0 \/ w.pipes.items[i].cwb
         THEN [w EXCEPT !.pipes.items = Append(@, made),
                        !.obs.resets = @ \cup {Len(w.pipes.items) + 1}]
         ELSE [w EXCEPT !.pipes.items[i] = made, !.obs.resets = @ \cup {i}]

\* Mutant: the child is not marked to be killed out of the world bounds.
addOnePipeNoBoundsKill(w0, x, y) ==
    LET w == [w0 EXCEPT !.obs.addCalls = @ + 1, !.obs.asked = @ \cup {<<x, y>>}] IN
    IF ~w.pipes.present THEN w
    ELSE LET i == getFirstDead(w.pipes.items) IN
         IF i = 0 THEN w
         ELSE [w EXCEPT !.pipes.items[i] =
                  [alive |-> TRUE, x |-> x, y |-> y, vx |-> pipeVelocity,
                   cwb |-> TRUE, oob |-> FALSE],
                        !.obs.resets = @ \cup {i}]

addOnePipe(w0, x, y) ==
    LET w == [w0 EXCEPT !.obs.addCalls = @ + 1, !.obs.asked = @ \cup {<<x, y>>}] IN
    IF ~w.pipes.present THEN w
    ELSE LET i == getFirstDead(w.pipes.items) IN
         IF i = 0 THEN w
         ELSE [w EXCEPT !.pipes.items[i] =
                  [alive |-> TRUE, x |-> x, y |-> y, vx |-> pipeVelocity,
                   cwb |-> TRUE, oob |-> TRUE],
                        !.obs.resets = @ \cup {i}]

\* Math.floor(normalizedRandom * (gapMax - gapMin + 1)) + gapMin, with
\* normalizedRandom = r.num / r.den in [0, 1)
holeOf(r) == ((r.num * (pipeGapMax - pipeGapMin + 1)) \div r.den) + pipeGapMin

\* The values normalizedRandom takes at a grain g
Randoms(g) == {[num |-> u, den |-> g] : u \in 0..(g - 1)}

\* Mutant: the row offset is left out of y.
RECURSIVE rowLoopNoOffset(_, _, _)
rowLoopNoOffset(w, i, hole) ==
    IF i >= pipeRows THEN w
    ELSE rowLoopNoOffset(IF i # hole /\ i # hole + 1
                         THEN addOnePipe(w, width, i * pipeSpacing)
                         ELSE w,
                         i + 1, hole)

\* for (let i = from; i < pipeRows; i++) if (i !== hole && i !== hole + 1) addOnePipe(...)
RECURSIVE rowLoop(_, _, _)
rowLoop(w, i, hole) ==
    IF i >= pipeRows THEN w
    ELSE rowLoop(IF i # hole /\ i # hole + 1
                 THEN addOnePipe(w, width, i * pipeSpacing + pipeOffset)
                 ELSE w,
                 i + 1, hole)

\* gameState = (this.score || 0) + (this.bird ? (this.bird.y || 0) : 0) is a
\* number when the score is a number, NaN or undefined.  A truthy score that
\* is not a number makes both + concatenate strings, and then
\* seed = (timestamp + gameState) % 65535 is NaN, and so are random,
\* normalizedRandom and hole.
SeedIsNaN(s) == s.kind = "text"

\* hole when it is NaN: i !== hole and i !== hole + 1 hold for every row i.
\* A value that neither is a row index nor precedes one stands for it.
NaNHole == 0 - 2

\* Number(this.score) || 0
NumberOrZero(s) == IF s.kind = "number" THEN s.n ELSE 0

\* Mutant: this.score += 1, without the coercion to a number.
addRowOfPipesNoCoerce(w, r) ==
    IF ~w.labelScore.present THEN w
    ELSE LET hole == IF SeedIsNaN(w.score) THEN NaNHole ELSE holeOf(r)
             w1 == rowLoop(w, 0, hole)
             w2 == [w1 EXCEPT !.score = IF @.kind = "number" THEN Num(@.n + 1)
                                        ELSE IF @.kind = "text" THEN TextScore
                                        ELSE NaNScore]
         IN [w2 EXCEPT !.labelScore.text =
                IF w2.score.kind = "number" THEN sanitizeScore(String(w2.score.n))
                ELSE IF w2.score.kind = "text" THEN <<"1">>
                ELSE <<"N", "a", "N">>]

\* Mutant: the guard on the score label is missing.
addRowOfPipesNoGuard(w, r) ==
    LET hole == IF SeedIsNaN(w.score) THEN NaNHole ELSE holeOf(r)
        w1 == rowLoop(w, 0, hole)
        w2 == [w1 EXCEPT !.score = Num(NumberOrZero(@) + 1)]
    IN IF ~w2.labelScore.present THEN Throw(w2, "TypeError")
       ELSE [w2 EXCEPT !.labelScore.text = sanitizeScore(String(w2.score.n))]

\* Mutant: a row that the pool cannot fill is abandoned before the score.
addRowOfPipesStopsWhenExhausted(w, r) ==
    IF ~w.labelScore.present THEN w
    ELSE LET hole == IF SeedIsNaN(w.score) THEN NaNHole ELSE holeOf(r)
             w1 == rowLoop(w, 0, hole)
             w2 == [w1 EXCEPT !.score = Num(NumberOrZero(@) + 1)]
         IN IF Cardinality(w1.obs.resets) < w1.obs.addCalls THEN w1
            ELSE [w2 EXCEPT !.labelScore.text = sanitizeScore(String(w2.score.n))]

\* Mutant: the label is written before the score is incremented.
addRowOfPipesLabelFirst(w, r) ==
    IF ~w.labelScore.present THEN w
    ELSE LET hole == IF SeedIsNaN(w.score) THEN NaNHole ELSE holeOf(r)
             w1 == rowLoop(w, 0, hole)
             w2 == [w1 EXCEPT !.labelScore.text =
                        sanitizeScore(String(NumberOrZero(w1.score)))]
         IN [w2 EXCEPT !.score = Num(NumberOrZero(@) + 1)]

addRowOfPipes(w, r) ==
    IF ~w.labelScore.present THEN w
    ELSE LET hole == IF SeedIsNaN(w.score) THEN NaNHole ELSE holeOf(r)
             w1 == rowLoop(w, 0, hole)
             w2 == [w1 EXCEPT !.score = Num(NumberOrZero(@) + 1)]
         IN [w2 EXCEPT !.labelScore.text = sanitizeScore(String(w2.score.n))]

(***************************************************************************)
(* addRowOfPipes reads the gap bounds, the row count and the width from    *)
(* GAME_CONFIG.  The same statements, for a GAME_CONFIG object c:          *)
(***************************************************************************)
\* Math.floor(normalizedRandom * (c.pipeGapMax - c.pipeGapMin + 1)) + c.pipeGapMin
holeIn(c, r) == ((r.num * (c.pipeGapMax - c.pipeGapMin + 1)) \div r.den) + c.pipeGapMin

\* for (let i = from; i < c.pipeRows; i++) if (i !== hole && i !== hole + 1) addOnePipe(...)
RECURSIVE rowLoopIn(_, _, _, _)
rowLoopIn(c, w, i, hole) ==
    IF i >= c.pipeRows THEN w
    ELSE rowLoopIn(c,
                   IF i # hole /\ i # hole + 1
                   THEN addOnePipe(w, c.width, i * pipeSpacing + pipeOffset)
                   ELSE w,
                   i + 1, hole)

addRowOfPipesIn(c, w, r) ==
    IF ~w.labelScore.present THEN w
    ELSE LET hole == IF SeedIsNaN(w.score) THEN NaNHole ELSE holeIn(c, r)
             w1 == rowLoopIn(c, w, 0, hole)
             w2 == [w1 EXCEPT !.score = Num(NumberOrZero(@) + 1)]
         IN [w2 EXCEPT !.labelScore.text = sanitizeScore(String(w2.score.n))]

(***************************************************************************)
(* The engine.  Phaser's loop runs, every frame: the state manager (which  *)
(* performs a pending state start), the clock (timers), the tweens, the    *)
(* physics step of every body, and then the state's update.                *)
(***************************************************************************)
Running == engine.phase = "running" /\ ~engine.pendingStart

AliveCount(items) == Cardinality({i \in DOMAIN items : items[i].alive})

\* game.state.start('main') is carried out: the world, the clock, the tweens
\* and the input of the previous run are shut down, then preload is called.
StartState ==
    /\ engine.pendingStart
    /\ engine.phase \in {"boot", "running"}
    /\ LET w0 == [Enter(World, "preload") EXCEPT
                     !.engine.pendingStart = FALSE,
                     !.engine.timerActive = FALSE,
                     !.engine.elapsed = 0,
                     !.engine.keyBound = FALSE,
                     !.engine.tween = FALSE,
                     !.engine.loaded = {},
                     !.hist.ticks = 0,
                     !.hist.cancels = 0,
                     !.hist.deaths = 0]
           w1 == preload(w0)
       IN Commit([w1 EXCEPT !.engine.phase =
                     IF w1.obs.err # "none" THEN "failed" ELSE "preloaded"])

\* The loader has finished: create is called and the run begins.
CreateStep ==
    /\ engine.phase = "preloaded"
    /\ hist.runs < MaxRuns
    /\ LET w1 == create(Enter(World, "create"))
       IN Commit([w1 EXCEPT !.engine.phase =
                     IF w1.obs.err # "none" THEN "failed" ELSE "running",
                            !.hist.runs = @ + 1])

\* The outcomes of the overlap query the collaborator can produce: a
\* callback per overlapping live obstacle, or a failure.
Overlaps(items) ==
    {"none", "raise"}
        \cup (IF AliveCount(items) >= 1 THEN {"hit"} ELSE {})
        \cup (IF AliveCount(items) >= 2 THEN {"hit2"} ELSE {})

\* One rendered frame: update()
Frame ==
    /\ Running
    /\ \E ov \in Overlaps(pipes.items) :
           Commit(update(Enter(World, "update"), ov))

\* The space key goes down: the bound handler jump()
KeyPress ==
    /\ Running
    /\ engine.keyBound
    /\ Commit(jump(Enter(World, "jump")))

\* The looping timer event is due: addRowOfPipes()
SpawnTick ==
    /\ Running
    /\ engine.timerActive
    /\ engine.elapsed = TicksDue
    /\ hist.ticks < MaxTicks
    /\ \E r \in Randoms(Grain) :
           LET w1 == addRowOfPipes(Enter(World, "addRowOfPipes"), r)
           IN Commit([w1 EXCEPT !.engine.elapsed = 0, !.hist.ticks = @ + 1])

\* The jump tween is under way: it sets the angle to a value between the
\* current one and the target, a fraction k/TweenGrain of the way short of it.
TweenStep ==
    /\ Running
    /\ engine.tween
    /\ \E k \in 1..(TweenGrain - 1) :
           Commit([Enter(World, "engine") EXCEPT
                     !.bird.angle = (0 - birdMaxAngle)
                                        + (((@ + birdMaxAngle) * k) \div TweenGrain)])

\* The jump tween (100 ms) reaches its target angle.
TweenEnd ==
    /\ Running
    /\ engine.tween
    /\ Commit([Enter(World, "engine") EXCEPT
                  !.bird.angle = 0 - birdMaxAngle,
                  !.engine.tween = FALSE])

\* A body that has fallen faster than a fall through the whole world from
\* a jump allows has left the world.
MustBeOut(vy) ==
    vy > 0 /\ vy * vy > birdJumpVelocity * birdJumpVelocity
                           + 2 * birdGravity * (height + SpriteSize)

\* Arcade physics moves an obstacle by its velocity; a sprite with
\* checkWorldBounds and outOfBoundsKill is killed once it is outside.
movePipe(p) ==
    IF ~p.alive THEN p
    ELSE LET nx == p.x + (p.vx * Quantum) \div 1000 IN
         IF p.cwb /\ p.oob /\ (nx + SpriteSize < 0 \/ nx > width)
         THEN [p EXCEPT !.x = nx, !.alive = FALSE]
         ELSE [p EXCEPT !.x = nx]

\* One quantum of engine time: gravity, obstacle motion, the clock.
Advance ==
    /\ Running
    /\ bird.inWorld
    /\ ~(engine.timerActive /\ engine.elapsed = TicksDue)
    /\ \E leaves \in BOOLEAN :
           LET nvy == bird.vy + (birdGravity * Quantum) \div 1000 IN
           Commit([Enter(World, "engine") EXCEPT
                     !.bird.vy = nvy,
                     !.bird.inWorld = ~(leaves \/ MustBeOut(nvy)),
                     !.bird.angle = IF engine.tween THEN 0 - birdMaxAngle ELSE @,
                     !.engine.tween = FALSE,
                     !.engine.elapsed = IF engine.timerActive THEN @ + 1 ELSE @,
                     !.pipes.items = [i \in DOMAIN @ |-> movePipe(@[i])]])

Init ==
    /\ game = TRUE
    /\ bird \in {NoBird, Payload("png"), Payload("bad")}
    /\ pipe \in {"absent", "png", "bad"}
    /\ pipes = NoPipes
    /\ score = NoScore
    /\ labelScore = NoLabel
    /\ timer = FALSE
    /\ engine = [NoEngine EXCEPT !.phase = "boot", !.pendingStart = TRUE]
    /\ obs = NoObs
    /\ hist = [NoHist EXCEPT !.shipped = (bird = NoBird /\ pipe = "absent")]
    /\ config = GAME_CONFIG
    /\ verdict = validateConfig(GAME_CONFIG)

Next ==
    \/ StartState
    \/ CreateStep
    \/ Frame
    \/ KeyPress
    \/ SpawnTick
    \/ TweenStep
    \/ TweenEnd
    \/ Advance

Spec == Init /\ [][Next]_vars

\* The states in which a frame (resp. a quantum of engine time) can change
\* the state: ENABLED <<Frame>>_vars and ENABLED <<Advance>>_vars
FrameReady == Running
AdvanceReady ==
    Running /\ bird.inWorld /\ ~(engine.timerActive /\ engine.elapsed = TicksDue)

\* Frames keep firing and engine time keeps passing: the engine's loop
\* steps the clock and the physics and calls update on every frame.  This is
\* WF_vars(Frame) /\ WF_vars(Advance) with the enabling conditions written out.
FrameFair == []<>(~FrameReady) \/ []<><<Frame>>_vars
AdvanceFair == []<>(~AdvanceReady) \/ []<><<Advance>>_vars
FairSpec == Spec /\ FrameFair /\ AdvanceFair

(***************************************************************************)
(* Direct calls.  The test suite builds a state object by hand (any body,  *)
(* any pool, any timer handle, with or without a game) and calls a handler *)
(* on it; SpecApi does the same.                                           *)
(***************************************************************************)
ApiBirds ==
    {NoBird} \cup
    {[kind |-> "sprite", alive |-> a, inWorld |-> iw, angle |-> an, vy |-> v] :
        a \in BOOLEAN, iw \in BOOLEAN,
        an \in {birdMaxAngle - 1, birdMaxAngle}, v \in {0, 100}}

\* A dead child is at rest; a live one moves left or (as in the tests) right.
ApiPipe ==
    {DeadPipe} \cup
    {[alive |-> TRUE, x |-> birdStartX, y |-> pipeOffset, vx |-> v, cwb |-> TRUE, oob |-> TRUE] :
        v \in {pipeVelocity, 100}}

\* No pool, a small hand-built pool, or the pool as create builds it
ApiPools ==
    {NoPipes}
        \cup {[present |-> TRUE, items |-> it] : it \in [1..ApiPool -> ApiPipe]}
        \cup {[present |-> TRUE, items |-> [i \in 1..PoolSize |-> DeadPipe]]}

\* The scores the tests put next to a label: a number, NaN, a markup string
ApiScores == {Num(5), NaNScore, TextScore}

\* Sprites, groups, labels and timer handles are made by the game: a state
\* object without a game holds none of them.
InitApi ==
    /\ game \in BOOLEAN
    /\ bird \in (IF game THEN ApiBirds ELSE {NoBird})
    /\ pipe = "absent"
    /\ pipes \in (IF game THEN ApiPools ELSE {NoPipes})
    /\ \/ score = Num(0) /\ labelScore = NoLabel
       \/ game /\ score \in ApiScores /\ labelScore = [present |-> TRUE, text |-> <<"0">>]
    /\ timer \in (IF game THEN BOOLEAN ELSE {FALSE})
    /\ engine = [NoEngine EXCEPT !.phase = "harness", !.timerActive = timer]
    /\ obs = NoObs
    /\ hist = NoHist
    /\ config = GAME_CONFIG
    /\ verdict = validateConfig(GAME_CONFIG)

\* The state object after a direct call of a handler
Called(w) == Commit([w EXCEPT !.hist.calls = @ + 1])

CallHitPipe == hist.calls < MaxCalls /\ Called(hitPipe(Enter(World, "hitPipe")))

CallJump == hist.calls < MaxCalls /\ Called(jump(Enter(World, "jump")))

CallRestartGame == hist.calls < MaxCalls /\ Called(restartGame(Enter(World, "restartGame")))

CallUpdate ==
    /\ hist.calls < MaxCalls
    /\ \E ov \in {"none", "hit", "hit2", "raise"} :
           Called(update(Enter(World, "update"), ov))

CallAddOnePipe ==
    /\ hist.calls < MaxCalls
    /\ Called(addOnePipe(Enter(World, "addOnePipe"), width, pipeOffset))

CallAddRowOfPipes ==
    /\ hist.calls < MaxCalls
    /\ \E r \in Randoms(ApiGrain) :
           Called(addRowOfPipes(Enter(World, "addRowOfPipes"), r))

NextApi ==
    \/ CallHitPipe
    \/ CallJump
    \/ CallRestartGame
    \/ CallUpdate
    \/ CallAddOnePipe
    \/ CallAddRowOfPipes

SpecApi == InitApi /\ [][NextApi]_vars

(***************************************************************************)
(* preload and create called directly on a state object that holds the    *)
(* payloads (or not), with a collaborator that may fail to deliver.        *)
(***************************************************************************)
InitLife ==
    /\ game \in BOOLEAN
    /\ bird \in {NoBird, Payload("png"), Payload("bad")}
    /\ pipe \in {"absent", "png", "bad"}
    /\ pipes = NoPipes
    /\ score = NoScore
    /\ labelScore = NoLabel
    /\ timer = FALSE
    /\ engine = [NoEngine EXCEPT !.phase = "harness"]
    /\ obs = NoObs
    /\ hist = NoHist
    /\ config = GAME_CONFIG
    /\ verdict = validateConfig(GAME_CONFIG)

CallPreload == hist.calls < MaxCalls /\ Called(preload(Enter(World, "preload")))

CallCreate ==
    /\ hist.calls < MaxCalls
    /\ \E f \in Faults : Called(createWith(Enter(World, "create"), f))

NextLife ==
    \/ CallPreload
    \/ CallCreate

SpecLife == InitLife /\ [][NextLife]_vars

(***************************************************************************)
(* validateConfig called on a configuration object, as the tests do: the   *)
(* shipped configuration, or one whose fields are drawn around the limits  *)
(* the checks compare them with.                                           *)
(***************************************************************************)
Colours ==
    {GAME_CONFIG.backgroundColor,
     <<"#", "f", "f", "6", "a", "5", "e">>,
     <<"#", "F", "F", "F">>,
     <<"#", "G", "G", "6", "A", "5", "E">>,
     <<"F", "F", "6", "A", "5", "E", "0">>,
     <<"#", "F", "F", "6", "A", "5", "E", "0">>}

Configs ==
    {GAME_CONFIG} \cup
    [width : {0 - 1, 0, width}, height : {0, height},
     birdStartX : {0 - 1, 0, birdStartX}, birdStartY : {0 - 1, birdStartY},
     pipeGapMin : 0..MaxGap, pipeGapMax : 0..MaxGap, pipeRows : 0..(MaxGap + 2),
     backgroundColor : Colours]

InitConfig ==
    /\ game = TRUE
    /\ bird = NoBird
    /\ pipe = "absent"
    /\ pipes = NoPipes
    /\ score = NoScore
    /\ labelScore = NoLabel
    /\ timer = FALSE
    /\ engine = [NoEngine EXCEPT !.phase = "harness"]
    /\ obs = NoObs
    /\ hist = NoHist
    /\ config \in Configs
    /\ verdict = "none"

CallValidateConfig ==
    /\ verdict = "none"
    /\ verdict' = validateConfig(config)
    /\ UNCHANGED <<game, bird, pipe, pipes, score, labelScore, timer, engine, obs, hist,
                   config>>

\* The configuration was accepted and the script goes on: create() is called
\* on the state object, with a game that delivers every object
ConfigCreate ==
    /\ verdict = "true"
    /\ ~labelScore.present
    /\ Commit(create(Enter(World, "create")))

\* The spawn timer of that run fires: addRowOfPipes() under the configuration
ConfigSpawn ==
    /\ verdict = "true"
    /\ labelScore.present
    /\ hist.ticks < 1
    /\ \E r \in Randoms(ApiGrain) :
           LET w1 == addRowOfPipesIn(config, Enter(World, "addRowOfPipes"), r)
           IN Commit([w1 EXCEPT !.hist.ticks = @ + 1])

NextConfig ==
    \/ CallValidateConfig
    \/ ConfigCreate
    \/ ConfigSpawn

SpecConfig == InitConfig /\ [][NextConfig]_vars

(***************************************************************************)
(* Properties                                                              *)
(***************************************************************************)
\* The fields of the state object and of the collaborator (no bookkeeping)
Fields == <<game, bird, pipe, pipes, score, labelScore, timer, engine>>

\* The body of the current run has collided
DeadInRun == engine.phase = "running" /\ bird.kind = "sprite" /\ ~bird.alive

\* The current run has ended: a restart was requested
RunEnded == engine.phase = "running" /\ engine.pendingStart

AliveSet(items) == {i \in DOMAIN items : items[i].alive}

\* C1: a run started on the shipped state object (preload, then create)
\* succeeds, and the first addRowOfPipes call leaves score = 1 with exactly
\* 6 obstacles spawned, all at x = 400.
C1_ShippedRunStarts ==
    hist.shipped =>
        /\ engine.phase # "failed"
        /\ (obs.op = "addRowOfPipes" /\ hist.ticks = 1) =>
               /\ score = Num(1)
               /\ AliveCount(pipes.items) = 6
               /\ \A i \in AliveSet(pipes.items) : pipes.items[i].x = 400

\* C2: hitPipe called with a pool and an alive body marks the body dead,
\* cancels the spawn timer when one is present, and sets the horizontal
\* velocity of every alive obstacle to 0, whatever it was before.
C2_HitPipeEffect ==
    [][(obs'.op = "hitPipe" /\ hist'.calls = hist.calls + 1
          /\ bird.kind = "sprite" /\ bird.alive /\ pipes.present)
       => /\ ~bird'.alive
          /\ timer => (~engine'.timerActive /\ obs'.removeCalls = 1)
          /\ ~timer => (obs'.removeCalls = 0 /\ engine'.timerActive = engine.timerActive)
          /\ \A i \in AliveSet(pipes.items) :
                 pipes'.items[i].alive /\ pipes'.items[i].vx = 0]_vars

C2_Witness ==
    /\ obs.op = "hitPipe" /\ obs.removeCalls = 1 /\ obs.forEachCalls = 1
    /\ ~bird.alive /\ ~engine.timerActive
    /\ AliveCount(pipes.items) = ApiPool
    /\ \A i \in DOMAIN pipes.items : pipes.items[i].vx = 0

\* C3: hitPipe is idempotent: a hitPipe call right after a hitPipe call
\* leaves every field as the first call left it, and a hitPipe call on an
\* already-dead body neither cancels the timer nor iterates over the
\* obstacles.
C3_HitPipeIdempotent ==
    [][(obs'.op = "hitPipe" /\ hist'.calls = hist.calls + 1)
       => /\ obs.op = "hitPipe" =>
                (Fields' = Fields /\ hist'.cancels = hist.cancels
                                  /\ hist'.deaths = hist.deaths)
          /\ (bird.kind = "sprite" /\ ~bird.alive) =>
                (obs'.removeCalls = 0 /\ obs'.forEachCalls = 0 /\ Fields' = Fields)]_vars

C3_Witness ==
    /\ obs.op = "hitPipe" /\ hist.calls = 2 /\ hist.cancels = 1 /\ hist.deaths = 1
    /\ obs.removeCalls = 0 /\ obs.forEachCalls = 0
    /\ bird.kind = "sprite" /\ ~bird.alive /\ pipes.present /\ timer

\* C4: within one run the body's alive flag goes from true to false at most
\* once, and a dead body stays dead until create builds the next run.
C4_DiesOnce ==
    [][/\ hist'.deaths <= 1
       /\ (bird.kind = "sprite" /\ ~bird.alive /\ obs'.op # "create") => ~bird'.alive]_vars

C4_Witness ==
    /\ DeadInRun /\ hist.deaths = 1
    /\ obs.op = "jump"

\* C5 as stated: in every run the spawn timer is cancelled exactly once, so
\* no run ends without the collision handler having cancelled it.
C5_CancelledExactlyOnce ==
    /\ hist.cancels <= 1
    /\ RunEnded => hist.cancels = 1

\* C5 as amended: in every run the spawn timer is cancelled at most once,
\* and only by the collision that marks the body dead: the number of
\* cancellations always equals the number of deaths of the run.
C5_CancelledAtMostOnce ==
    /\ hist.cancels <= 1
    /\ hist.cancels = hist.deaths
    /\ engine.phase = "running" => (hist.cancels = 1 <=> ~bird.alive)

C5_Witness ==
    /\ DeadInRun /\ hist.cancels = 1
    /\ obs.op = "update" /\ obs.hitCalls = 2 /\ obs.removeCalls = 1

\* C6: after the first collision of a run every alive obstacle has
\* horizontal velocity 0 in every later state of that run, and no obstacle
\* changes position.
C6_FrozenAfterCollision ==
    [][DeadInRun' =>
          /\ \A i \in AliveSet(pipes'.items) : pipes'.items[i].vx = 0
          /\ DeadInRun => \A i \in DOMAIN pipes.items :
                              pipes'.items[i].x = pipes.items[i].x]_vars

C6_Witness ==
    /\ DeadInRun /\ obs.op = "engine"
    /\ AliveCount(pipes.items) = 12
    /\ \A i \in AliveSet(pipes.items) : pipes.items[i].vx = 0

\* C7: after the first collision of a run no spawn tick runs addRowOfPipes:
\* the score stays constant and no obstacle is activated.
C7_SpawnerHalted ==
    [][(DeadInRun /\ engine'.phase = "running") =>
          /\ obs'.op # "addRowOfPipes"
          /\ score' = score
          /\ hist'.ticks = hist.ticks
          /\ ~engine'.timerActive
          /\ AliveSet(pipes'.items) \subseteq AliveSet(pipes.items)]_vars

C7_Witness ==
    /\ DeadInRun /\ obs.op = "engine"
    /\ score = Num(1) /\ hist.ticks = 1
    /\ bird.vy >= birdGravity

\* C8: every run in which the body collides with an obstacle eventually
\* requests a restart, and so does every run in which the body leaves the
\* world bounds, as long as frames keep firing.
OutOfWorldInRun == engine.phase = "running" /\ bird.kind = "sprite" /\ ~bird.inWorld

C8_OverRequestsRestart == (DeadInRun \/ OutOfWorldInRun) ~> engine.pendingStart

C8_Witness ==
    /\ RunEnded /\ obs.op = "update" /\ obs.startCalls = 1
    /\ ~bird.alive /\ ~bird.inWorld /\ hist.deaths = 1

\* C9: a restart re-enters preload and create on the same state object, and
\* both succeed: the next run starts with score 0, a new alive body, a fresh
\* pool and a newly scheduled spawn timer.
C9_RestartStartsNextRun ==
    /\ (hist.runs >= 1 /\ obs.op = "preload") => engine.phase = "preloaded"
    /\ (hist.runs >= 2 /\ obs.op = "create") =>
           /\ engine.phase = "running"
           /\ score = Num(0)
           /\ bird = NewSprite
           /\ AliveCount(pipes.items) = 0
           /\ engine.timerActive

\* C10: update on a body whose inWorld flag is false requests a restart and
\* returns: the angle is unchanged and no overlap query is issued.
C10_OutOfWorldFrame ==
    [][(obs'.op = "update" /\ Running /\ ~bird.inWorld)
       => /\ engine'.pendingStart
          /\ obs'.startCalls = 1
          /\ bird'.angle = bird.angle
          /\ obs'.overlapCalls = 0
          /\ obs'.hitCalls = 0]_vars

C10_Witness ==
    /\ obs.op = "update" /\ RunEnded /\ ~bird.inWorld
    /\ obs.startCalls = 1 /\ obs.overlapCalls = 0
    /\ bird.angle < birdMaxAngle

\* C11: within one update frame the bounds check and the collision check
\* both happen before the rotation step: in a frame where the body dies by
\* collision, or has left the world, its angle is not advanced.
C11_NoRotationWhenDying ==
    [][(obs'.op = "update" /\ Running
          /\ (~bird.inWorld \/ (bird.alive /\ ~bird'.alive)))
       => bird'.angle = bird.angle]_vars

\* C12: if the overlap query raises during update, the error does not
\* escape update: it is caught and a restart is requested in that frame.
C12_OverlapErrorCaught ==
    (obs.op = "update" /\ obs.thrown > 0) =>
        /\ obs.err = "none"
        /\ engine.pendingStart
        /\ obs.startCalls = 1

C12_Witness ==
    /\ obs.op = "update" /\ obs.thrown = 1 /\ obs.overlapCalls = 1 /\ obs.hitCalls = 0
    /\ RunEnded /\ bird.alive /\ bird.inWorld

\* C13: jump on an alive body sets its vertical velocity to exactly the
\* configured jump impulse, whatever the velocity was before the call.
C13_JumpSetsImpulse ==
    [][(obs'.op = "jump" /\ bird.kind = "sprite" /\ bird.alive)
       => bird'.vy = birdJumpVelocity]_vars

C13_Witness ==
    /\ obs.op = "jump" /\ bird.alive /\ bird.vy = birdJumpVelocity
    /\ engine.tween /\ engine.elapsed = 1 /\ hist.ticks = 1

\* C14: jump on a dead or absent body is a silent no-op: the vertical
\* velocity and every other field are unchanged, no rotation animation is
\* started and no error is raised.
C14_JumpDeadNoOp ==
    [][(obs'.op = "jump" /\ hist'.calls = hist.calls + 1
          /\ (bird.kind = "absent" \/ ~bird.alive))
       => /\ Fields' = Fields
          /\ obs'.err = "none"
          /\ obs'.thrown = 0]_vars

C14_Witness ==
    /\ obs.op = "jump" /\ hist.calls = 2 /\ hist.deaths = 1
    /\ bird.kind = "sprite" /\ ~bird.alive /\ bird.vy = 100 /\ ~engine.tween

\* C15: with rowCount = 8, gapMin = 1, gapMax = 5, every addRowOfPipes call
\* (made with a score label) spawns exactly rowCount - 2 = 6 obstacles.
C15_SixPerRow ==
    (obs.op = "addRowOfPipes" /\ labelScore.present) => obs.addCalls = pipeRows - 2

\* C16: every addRowOfPipes call with a score label present increments the
\* score by exactly 1 when the prior score is a number and sets it to 1 when
\* it is not; the label shows the new score and never NaN.
C16_ScoreIncrement ==
    [][(obs'.op = "addRowOfPipes" /\ hist'.calls = hist.calls + 1 /\ labelScore.present)
       => /\ score.kind = "number" => score' = Num(score.n + 1)
          /\ score.kind # "number" => score' = Num(1)
          /\ labelScore'.text = String(score'.n)
          /\ labelScore'.text # <<"N", "a", "N">>]_vars

C16_Witness ==
    /\ obs.op = "addRowOfPipes" /\ hist.calls = 1
    /\ score = Num(1) /\ labelScore.text = <<"1">>

\* C17: every obstacle spawned by addRowOfPipes is placed at x equal to the
\* world width and at y = i*spacing + offset for a row index i in
\* [0, rowCount), so y lies in [0, (rowCount-1)*spacing + offset].
C17_SpawnPositions ==
    obs.op = "addRowOfPipes" =>
        /\ \A p \in obs.asked :
               /\ p[1] = width
               /\ \E i \in 0..(pipeRows - 1) : p[2] = i * pipeSpacing + pipeOffset
               /\ p[2] >= 0
               /\ p[2] <= (pipeRows - 1) * pipeSpacing + pipeOffset
        /\ \A i \in obs.resets :
               /\ pipes.items[i].alive
               /\ <<pipes.items[i].x, pipes.items[i].y>> \in obs.asked

C17_Witness ==
    /\ obs.op = "addRowOfPipes" /\ Cardinality(obs.resets) = pipeRows - 2
    /\ \E i \in obs.resets : pipes.items[i].y = pipeOffset
    /\ \E i \in obs.resets : pipes.items[i].y = (pipeRows - 1) * pipeSpacing + pipeOffset
    /\ \A i \in obs.resets : pipes.items[i].x = width

\* C18: in every row spawned by addRowOfPipes the gap index hole lies in
\* [gapMin, gapMax] and the rows left without an obstacle are exactly hole
\* and hole + 1.
C18_GapRows ==
    (obs.op = "addRowOfPipes" /\ labelScore.present) =>
        \E h \in pipeGapMin..pipeGapMax :
            {p[2] : p \in obs.asked} =
                {i * pipeSpacing + pipeOffset : i \in (0..(pipeRows - 1)) \ {h, h + 1}}

\* C19: addRowOfPipes called while the score label does not exist is a
\* silent no-op: no obstacle is taken from the pool, the score is unchanged.
C19_NoLabelNoOp ==
    [][(obs'.op = "addRowOfPipes" /\ hist'.calls = hist.calls + 1 /\ ~labelScore.present)
       => /\ Fields' = Fields
          /\ obs'.addCalls = 0
          /\ obs'.resets = {}
          /\ obs'.err = "none"]_vars

C19_Witness ==
    /\ obs.op = "addRowOfPipes" /\ ~labelScore.present /\ obs.addCalls = 0
    /\ pipes.present /\ Len(pipes.items) = PoolSize /\ AliveCount(pipes.items) = 0
    /\ score = Num(0)

\* The configuration invariants: width > 0, height > 0, start position >= 0,
\* gapMin < gapMax, rowCount > gapMax, a colour of six hex digits.
ConfigInvariants(c) ==
    /\ c.width > 0 /\ c.height > 0
    /\ c.birdStartX >= 0 /\ c.birdStartY >= 0
    /\ c.pipeGapMin < c.pipeGapMax
    /\ c.pipeRows > c.pipeGapMax
    /\ Len(c.backgroundColor) = 7 /\ c.backgroundColor[1] = "#"
    /\ \A i \in 2..7 : c.backgroundColor[i] \in HexDigits

\* C20: validateConfig returns without error for every configuration that
\* satisfies all the configuration invariants, and raises for every
\* configuration that violates at least one of them.
C20_ValidateConfigExact ==
    verdict # "none" => (verdict = "true" <=> ConfigInvariants(config))

\* The five classes of configuration invariants, in the order of the checks
DimensionsOk(c) == c.width > 0 /\ c.height > 0
StartOk(c) == c.birdStartX >= 0 /\ c.birdStartY >= 0
GapOrderOk(c) == c.pipeGapMin < c.pipeGapMax
RowCountOk(c) == c.pipeRows > c.pipeGapMax
ColourOk(c) ==
    /\ Len(c.backgroundColor) = 7 /\ c.backgroundColor[1] = "#"
    /\ \A i \in 2..7 : c.backgroundColor[i] \in HexDigits

\* The classes a configuration violates, by their place in the order
Violated(c) ==
    {k \in 1..5 : ~(CASE k = 1 -> DimensionsOk(c)
                      [] k = 2 -> StartOk(c)
                      [] k = 3 -> GapOrderOk(c)
                      [] k = 4 -> RowCountOk(c)
                      [] OTHER -> ColourOk(c))}

\* The reason each class is reported with
Reasons ==
    <<"Invalid game dimensions", "Invalid bird starting position",
      "Invalid pipe gap configuration", "Invalid pipe row configuration",
      "Invalid background color format">>

\* C21: validateConfig rejects a configuration whose rowCount equals gapMax
\* (and that passes the earlier checks) with the row-configuration reason.
C21_BoundaryRejected ==
    (verdict # "none" /\ config.pipeRows = config.pipeGapMax
        /\ DimensionsOk(config) /\ StartOk(config) /\ GapOrderOk(config))
    => verdict = "Invalid pipe row configuration"

\* C22: a configuration that violates exactly one of the five classes makes
\* validateConfig fail with the reason of that class, and the five reasons
\* are pairwise different.
C22_OneClassOneReason ==
    /\ \A j, k \in 1..5 : j # k => Reasons[j] # Reasons[k]
    /\ (verdict # "none" /\ Cardinality(Violated(config)) = 1)
           => \E k \in Violated(config) : verdict = Reasons[k]

\* C23: when a configuration violates several classes at once, validateConfig
\* reports the reason of the first one in the order dimensions, start
\* position, gap ordering, row count, colour format, and it does not modify
\* the configuration it is given.
C23_FirstFailingCheck ==
    [][(verdict = "none" /\ verdict' # "none") =>
          /\ config' = config
          /\ Cardinality(Violated(config)) >= 2 =>
                 \E k \in Violated(config) :
                     /\ verdict' = Reasons[k]
                     /\ \A j \in Violated(config) : k <= j]_vars

\* C24: preload fails fast on a malformed asset payload: if the body payload
\* or the obstacle payload is absent, not a string or not a PNG data URI,
\* preload raises 'Invalid image data format' and neither asset is handed
\* to the loader.
C24_PreloadFailsFast ==
    (obs.op = "preload" /\ (bird.kind # "png" \/ pipe # "png")) =>
        /\ obs.err = "Invalid image data format"
        /\ engine.loaded = {}
        /\ engine.phase = "failed"

C24_Witness ==
    /\ obs.op = "preload" /\ bird.kind = "png" /\ pipe = "bad"
    /\ obs.err = "Invalid image data format" /\ engine.loaded = {}

\* The required objects in construction order, and the error of each
CreateOrder == <<"sprite", "physics", "group", "keyboard">>
CreateErrors ==
    <<"Failed to create bird sprite", "Failed to enable physics on bird",
      "Failed to create pipe group", "Failed to set up keyboard controls">>

\* C25: create surfaces a distinct fatal error for each required object that
\* cannot be constructed (body sprite, physics body, obstacle group,
\* keyboard binding), and the error reported is that of the first missing
\* component in construction order.
C25_CreateFirstMissing ==
    /\ \A j, k \in 1..4 : j # k => CreateErrors[j] # CreateErrors[k]
    /\ (obs.op = "create" /\ game) =>
           /\ obs.faults = {} => obs.err = "none"
           /\ obs.faults # {} =>
                  \E k \in 1..4 :
                      /\ CreateOrder[k] \in obs.faults
                      /\ \A j \in 1..(k - 1) : CreateOrder[j] \notin obs.faults
                      /\ obs.err = CreateErrors[k]

C25_Witness ==
    /\ obs.op = "create" /\ obs.faults = {"physics", "keyboard"}
    /\ obs.err = "Failed to enable physics on bird"
    /\ bird.kind = "bodiless" /\ ~pipes.present /\ ~timer

\* C26: in every reachable state of a run the body's angle lies in
\* [minAngle, maxAngle], under any interleaving of frame updates and jump
\* rotation animations.
C26_AngleInRange ==
    (engine.phase = "running" /\ bird.kind = "sprite") =>
        (birdMinAngle <= bird.angle /\ bird.angle <= birdMaxAngle)

C26_Witness ==
    /\ Running /\ obs.op = "update" /\ engine.tween
    /\ bird.angle = birdMaxAngle

C28_RotationStep ==
    [][(obs'.op = "update" /\ Running /\ bird.inWorld)
       => /\ bird.angle < birdMaxAngle =>
                 (bird'.angle = bird.angle + 1 /\ bird'.angle <= birdMaxAngle)
          /\ bird.angle = birdMaxAngle => bird'.angle = bird.angle]_vars

C28_Witness ==
    /\ Running /\ obs.op = "update" /\ obs.overlapCalls = 1
    /\ bird.alive /\ bird.inWorld /\ bird.angle = birdMaxAngle /\ ~engine.tween

\* C29: the angle advances by the per-frame step only while the body is
\* alive: once the body is dead, no later update frame of that run changes
\* its angle.
C29_DeadBodyNotRotated ==
    [][(obs'.op = "update" /\ DeadInRun) => bird'.angle = bird.angle]_vars

\* The dead obstacles of a pool
DeadSet(items) == {i \in DOMAIN items : ~items[i].alive}

\* C30: addOnePipe(x, y) with a dead obstacle available activates exactly
\* one obstacle, the first dead one: it is reset to (x, y), its horizontal
\* velocity is the configured obstacle velocity, it is marked for auto-kill
\* on leaving the world bounds, and no other obstacle is changed.
C30_AddOnePipeEffect ==
    [][(obs'.op = "addOnePipe" /\ hist'.calls = hist.calls + 1
          /\ pipes.present /\ DeadSet(pipes.items) # {})
       => \E i \in DeadSet(pipes.items) :
              /\ \A j \in DeadSet(pipes.items) : i <= j
              /\ obs'.resets = {i}
              /\ AliveSet(pipes'.items) = AliveSet(pipes.items) \cup {i}
              /\ <<pipes'.items[i].x, pipes'.items[i].y>> \in obs'.asked
              /\ pipes'.items[i].vx = pipeVelocity
              /\ pipes'.items[i].cwb /\ pipes'.items[i].oob
              /\ \A j \in DOMAIN pipes.items : j # i => pipes'.items[j] = pipes.items[j]]_vars

C30_Witness ==
    /\ obs.op = "addOnePipe" /\ obs.resets = {2} /\ obs.asked = {<<width, pipeOffset>>}
    /\ pipes.items[1].alive /\ pipes.items[1].vx = 100
    /\ pipes.items[2].alive /\ pipes.items[2].x = width /\ pipes.items[2].vx = pipeVelocity

\* C31: addOnePipe is a silent no-op when the pool is absent or has no dead
\* obstacle: no obstacle's position, velocity or alive flag changes (nor
\* any other field of the state object) and no error is raised.
C31_AddOnePipeNoOp ==
    [][(obs'.op = "addOnePipe" /\ hist'.calls = hist.calls + 1
          /\ (~pipes.present \/ DeadSet(pipes.items) = {}))
       => /\ pipes' = pipes
          /\ Fields' = Fields
          /\ obs'.resets = {}
          /\ obs'.err = "none" /\ obs'.thrown = 0]_vars

C31_Witness ==
    /\ obs.op = "addOnePipe" /\ obs.addCalls = 1 /\ obs.resets = {} /\ obs.err = "none"
    /\ hist.calls = 1
    /\ pipes.present /\ DeadSet(pipes.items) = {}
    /\ pipes.items[1].vx = 100 /\ pipes.items[2].vx = pipeVelocity
    /\ \A i \in DOMAIN pipes.items : pipes.items[i].x = birdStartX

\* C32: pool exhaustion is silently ignored by the spawner: when fewer than
\* rowCount - 2 dead obstacles are available, addRowOfPipes activates only
\* the available ones (every dead obstacle, and nothing else changes in the
\* pool), raises no error, and still increments the score by exactly 1 (a
\* score that is not a number counts as 0).
C32_ExhaustionIgnored ==
    [][(obs'.op = "addRowOfPipes" /\ hist'.calls = hist.calls + 1
          /\ labelScore.present
          /\ Cardinality(DeadSet(pipes.items)) < pipeRows - 2)
       => /\ pipes'.present = pipes.present
          /\ DOMAIN pipes'.items = DOMAIN pipes.items
          /\ obs'.resets = DeadSet(pipes.items)
          /\ AliveSet(pipes'.items) = DOMAIN pipes.items
          /\ \A i \in AliveSet(pipes.items) : pipes'.items[i] = pipes.items[i]
          /\ obs'.err = "none" /\ obs'.thrown = 0
          /\ score.kind = "number" => score' = Num(score.n + 1)
          /\ score.kind # "number" => score' = Num(1)
          /\ labelScore'.text = String(score'.n)]_vars

C32_Witness ==
    /\ obs.op = "addRowOfPipes" /\ hist.calls = 1
    /\ obs.addCalls = pipeRows - 2 /\ obs.resets = {2}
    /\ pipes.items[1].alive /\ pipes.items[1].vx = 100 /\ pipes.items[1].x = birdStartX
    /\ pipes.items[2].alive /\ pipes.items[2].x = width
    /\ score = Num(6) /\ labelScore.text = <<"6">>

\* C33: hitPipe called while the body or the obstacle pool does not exist
\* changes nothing: an existing body stays alive, the timer is not
\* cancelled, no obstacle is visited and no error is raised.
C33_HitPipeNothingToHit ==
    [][(obs'.op = "hitPipe" /\ hist'.calls = hist.calls + 1
          /\ (bird.kind = "absent" \/ ~pipes.present))
       => /\ Fields' = Fields
          /\ bird'.alive = bird.alive
          /\ timer' = timer /\ engine'.timerActive = engine.timerActive
          /\ obs'.removeCalls = 0 /\ hist'.cancels = hist.cancels
          /\ obs'.forEachCalls = 0
          /\ pipes' = pipes
          /\ obs'.err = "none" /\ obs'.thrown = 0]_vars

\* A live body without a pool, the timer handle set, after the call
C33_Witness ==
    /\ obs.op = "hitPipe" /\ obs.hitCalls = 1 /\ hist.calls = 1
    /\ bird.kind = "sprite" /\ bird.alive
    /\ ~pipes.present
    /\ timer /\ engine.timerActive
    /\ obs.removeCalls = 0 /\ obs.forEachCalls = 0

\* C34: whenever the score label exists, its text is the decimal string of
\* the current score: "0" right after create and String(score) after every
\* spawn tick, under any interleaving of callbacks.
C34_LabelShowsScore ==
    labelScore.present =>
        /\ score.kind = "number"
        /\ labelScore.text = String(score.n)
        /\ obs.op = "create" => labelScore.text = <<"0">>

\* Two spawn ticks, then a frame
C34_Witness ==
    /\ labelScore.present /\ labelScore.text = <<"2">> /\ score = Num(2)
    /\ hist.ticks = 2 /\ obs.op = "update"

\* C35: the obstacle pool has a fixed capacity of 20 for the whole run:
\* after any sequence of spawn ticks, auto-kills and collisions, the number
\* of alive obstacles plus the number of dead obstacles is 20, so at most
\* 20 obstacles are ever alive.
C35_PoolCapacity ==
    pipes.present =>
        /\ Len(pipes.items) = PoolSize
        /\ Cardinality(AliveSet(pipes.items)) + Cardinality(DeadSet(pipes.items)) = PoolSize
        /\ AliveCount(pipes.items) <= PoolSize

\* Three spawn ticks, the first row killed on leaving the world and its
\* obstacles taken again, the second row killed, then a collision
C35_Witness ==
    /\ engine.phase = "running" /\ hist.ticks = 3
    /\ bird.kind = "sprite" /\ ~bird.alive /\ hist.deaths = 1
    /\ AliveSet(pipes.items) = 1..(pipeRows - 2)
    /\ \A i \in AliveSet(pipes.items) : pipes.items[i].vx = 0
    /\ \E i \in DeadSet(pipes.items) : pipes.items[i].cwb

C37_AliveObstaclesMove ==
    (bird.kind = "sprite" /\ bird.alive /\ pipes.present) =>
        \A i \in AliveSet(pipes.items) :
            /\ pipes.items[i].vx = pipeVelocity
            /\ pipes.items[i].cwb
            /\ pipes.items[i].oob

\* A live body, two rows under way after the third tick, in a frame
C37_Witness ==
    /\ bird.kind = "sprite" /\ bird.alive /\ obs.op = "update"
    /\ hist.ticks = 3 /\ AliveCount(pipes.items) = 2 * (pipeRows - 2)
    /\ \E i \in AliveSet(pipes.items) : pipes.items[i].x = width + (pipeVelocity * SpawnDelay) \div 1000
    /\ \E i \in AliveSet(pipes.items) : pipes.items[i].x = width

\* The row indices at which the last addRowOfPipes call asked for an obstacle
RowsAsked == {i \in 0..(config.pipeRows - 1) :
                 \E p \in obs.asked : p[2] = i * pipeSpacing + pipeOffset}

\* C38: for every configuration that validateConfig accepts, each row
\* spawned by addRowOfPipes leaves exactly two empty rows, both inside the
\* grid [0, rowCount): the gap rows hole and hole+1 are valid row indices
\* for every hole in [gapMin, gapMax], and rowCount - 2 obstacles are
\* spawned.
C38_TwoGapRowsInGrid ==
    (verdict = "true" /\ obs.op = "addRowOfPipes") =>
        /\ \A h \in config.pipeGapMin..config.pipeGapMax :
               {h, h + 1} \subseteq 0..(config.pipeRows - 1)
        /\ obs.addCalls = config.pipeRows - 2
        /\ Cardinality((0..(config.pipeRows - 1)) \ RowsAsked) = 2
        /\ \E h \in config.pipeGapMin..config.pipeGapMax :
               (0..(config.pipeRows - 1)) \ RowsAsked = {h, h + 1}

\* The same, for the accepted configurations with rowCount >= gapMax + 2
\* and gapMin >= 0
C38_TwoGapRowsWithRoom ==
    (verdict = "true" /\ obs.op = "addRowOfPipes"
        /\ config.pipeRows >= config.pipeGapMax + 2 /\ config.pipeGapMin >= 0) =>
        /\ obs.addCalls = config.pipeRows - 2
        /\ \E h \in config.pipeGapMin..config.pipeGapMax :
               (0..(config.pipeRows - 1)) \ RowsAsked = {h, h + 1}
====
